---- MODULE Spec2Model ----
(***************************************************************************)
(* Trivia API (backend/flaskr/__init__.py): the question and category      *)
(* tables, the six route handlers, the five error handlers and the         *)
(* pagination helper, as a state machine.  One request is handled at a     *)
(* time: a handler action turns the request into a response and a new      *)
(* table state, after_request hands the response to the client.            *)
(*                                                                         *)
(* Encoding of Python/JSON values:                                         *)
(*   - a text is a sequence of one-character strings;                      *)
(*   - None in a text position is the one-element sequence None;           *)
(*   - None in an integer position is NoneInt;                             *)
(*   - a JSON object / dict is a function from key strings to values,      *)
(*     whose DOMAIN is the set of keys that are present.                   *)
(***************************************************************************)
EXTENDS Integers, Sequences, FiniteSets, TLC

VARIABLES
    questions,    \* the question table, rows in id order (Question.query.order_by(Question.id))
    categories,   \* the category table, rows in id order
    nextId,       \* the next value of the question id sequence of the database
    request,      \* the request being handled, NoRequest between requests
    response,     \* the response the handler produced, NoResponse between requests
    writes        \* number of rows inserted or deleted so far (bounds the exploration)

vars == <<questions, categories, nextId, request, response, writes>>

----------------------------------------------------------------------------
(* Bounds of the exploration *)

MaxWrites == 2       \* inserts + deletes in one behaviour
MaxCategories == 2   \* rows of the category table
MaxPage == 3         \* largest ?page= value a client sends
MaxPrevId == 2       \* previous_questions holds ids in 1..MaxPrevId
MaxLen == 24         \* longest selection handed to paginate_questions in SpecPaginate

QUESTIONS_PER_PAGE == 10

----------------------------------------------------------------------------
(* Values *)

None == <<"None">>
NoneInt == 0 - 1

Title == <<"T", "i", "t", "l", "e">>
What == <<"W", "h", "a", "t">>
Answer == <<"a">>

EmptyString == <<>>
Tit == <<"t", "i", "t">>
AT == <<"A", "T">>

EmptyDict == [k \in {} |-> 0]

Min(a, b) == IF a < b THEN a ELSE b
Max(a, b) == IF a > b THEN a ELSE b

\* dict.get(key, default)
Get(d, key, default) == IF key \in DOMAIN d THEN d[key] ELSE default

\* Python truth value of a text or None
Truthy(v) == v # None /\ v # EmptyString

\* s[start:end] for a Python list: negative indices count from the end,
\* out-of-range indices are clamped, an empty range gives the empty list
PySlice(s, start, end) ==
    LET n == Len(s)
        norm(i) == IF i < 0 THEN Max(n + i, 0) ELSE Min(i, n)
        lo == norm(start)
        hi == norm(end)
    IN  IF lo >= hi THEN <<>> ELSE SubSeq(s, lo + 1, hi)

Ids(qs) == {qs[i].id : i \in 1..Len(qs)}

----------------------------------------------------------------------------
(* models.py (not part of the sources at hand): rows and their operations *)

\* Question.format(): the row as a dict
Question_format(q) ==
    [id |-> q.id, question |-> q.question, answer |-> q.answer,
     category |-> q.category, difficulty |-> q.difficulty]

\* Category.format()
Category_format(c) == [id |-> c.id, type |-> c.type]

\* [question.format() for question in selection]
FormatQuestions(selection) == [i \in 1..Len(selection) |-> Question_format(selection[i])]

\* [category.format() for category in categories]
FormatCategories(cats) == [i \in 1..Len(cats) |-> Category_format(cats[i])]

\* Question(...).insert(): the row gets the next id of the sequence and is
\* therefore the last one in id order
Question_insert(qs, id, question, answer, category, difficulty) ==
    Append(qs, [id |-> id, question |-> question, answer |-> answer,
                category |-> category, difficulty |-> difficulty])

\* question.delete()
Question_delete(qs, id) == LET keep(q) == q.id # id IN SelectSeq(qs, keep)

\* Question.query.get(id): the row, or <<>> for None
Question_get(qs, id) == LET hit(q) == q.id = id IN SelectSeq(qs, hit)

\* Postgres lower()
Lower(c) ==
    CASE c = "T" -> "t"
      [] c = "W" -> "w"
      [] c = "A" -> "a"
      [] OTHER -> c

LowerText(t) == [i \in 1..Len(t) |-> Lower(t[i])]

\* text ILIKE '%term%': case-insensitive substring; NULL matches nothing
ilike(text, term) ==
    /\ text # None
    /\ \E off \in 0..(Len(text) - Len(term)) :
          SubSeq(LowerText(text), off + 1, off + Len(term)) = LowerText(term)

\* the rows the database holds before the application starts
SeedQuestion(i) ==
    [id |-> i,
     question |-> IF i % 3 = 0 THEN What ELSE Title,
     answer |-> Answer,
     category |-> (i % 2) + 1,
     difficulty |-> 1]

SeedQuestions(n) == [i \in 1..n |-> SeedQuestion(i)]

CategoryTypes == <<"Science", "Art", "Geography", "History">>

SeedCategories(n) == [i \in 1..n |-> [id |-> i, type |-> CategoryTypes[((i - 1) % 4) + 1]]]

----------------------------------------------------------------------------
(* Requests and responses *)

NoRequest ==
    [method |-> "", route |-> "", id |-> 0, args |-> EmptyDict,
     body |-> EmptyDict, fail |-> FALSE]

NoResponse == [status |-> 0, body |-> EmptyDict]

\* fail: the persistence layer raises while this request is handled
Req(method, route, id, args, body, fail) ==
    [method |-> method, route |-> route, id |-> id, args |-> args,
     body |-> body, fail |-> fail]

jsonify(status, body) == [status |-> status, body |-> body]

\* what a handler leaves behind: its response and the tables
Result(resp, qs, nid) == [response |-> resp, questions |-> qs, nextId |-> nid]

----------------------------------------------------------------------------
(* Error handlers *)

not_found ==
    jsonify(404, [success |-> FALSE, error |-> 404, message |-> "resource not found"])

unprocessable ==
    jsonify(422, [success |-> FALSE, error |-> 422, message |-> "unprocessable"])

bad_request ==
    jsonify(400, [success |-> FALSE, error |-> 400, message |-> "bad request"])

not_allowed ==
    jsonify(405, [success |-> FALSE, error |-> 405, message |-> "method not allowed"])

internal_server_error ==
    jsonify(500, [success |-> FALSE, error |-> 500, message |-> "internal server error"])

----------------------------------------------------------------------------
(* Pagination *)

\* the page taken as a 0-based index
paginate_questions_zero_based(req, selection) ==
    LET page == Get(req.args, "page", 1)
        start == page * QUESTIONS_PER_PAGE
        end == start + QUESTIONS_PER_PAGE
        formatted == FormatQuestions(selection)
    IN  PySlice(formatted, start, end)

paginate_questions(req, selection) ==
    LET page == Get(req.args, "page", 1)
        start == (page - 1) * QUESTIONS_PER_PAGE
        end == start + QUESTIONS_PER_PAGE
        formatted == FormatQuestions(selection)
    IN  PySlice(formatted, start, end)

\* {category['id']: category['type'] for category in all_categories}
CategoryDict(all_categories) ==
    [id \in {all_categories[i].id : i \in 1..Len(all_categories)} |->
        LET last == CHOOSE i \in 1..Len(all_categories) :
                        /\ all_categories[i].id = id
                        /\ \A j \in (i + 1)..Len(all_categories) : all_categories[j].id # id
        IN  all_categories[last].type]

----------------------------------------------------------------------------
(* Control flow of a handler body *)

\* abort(code): raises the HTTPException that the error handler answers
abort(resp) == [raised |-> TRUE, response |-> resp]

\* any other exception (here: the persistence layer failing); when no except
\* clause catches it the 500 handler answers
raise_error == abort(internal_server_error)

\* return jsonify(...), with the tables as the body left them
return(resp, qs, nid) == [raised |-> FALSE, result |-> Result(resp, qs, nid)]

\* a body outside any try block: an exception reaches its error handler
Unguarded(outcome) ==
    IF outcome.raised THEN Result(outcome.response, questions, nextId)
    ELSE outcome.result

\* try: body / except: abort(code) -- the bare except catches every exception,
\* the HTTPException of an abort() in the body included
TryExcept(outcome, handler) ==
    IF outcome.raised THEN Result(handler, questions, nextId)
    ELSE outcome.result

----------------------------------------------------------------------------
(* Route handlers: the response and the tables after the request *)

\* the emptiness test off by one
get_categories_off_by_one(req) ==
    LET all_categories == FormatCategories(categories)
    IN  Unguarded(
            IF req.fail THEN raise_error
            ELSE IF Len(categories) <= 1 THEN abort(not_found)
            ELSE return(jsonify(200, [success |-> TRUE,
                                      categories |-> CategoryDict(all_categories)]),
                        questions, nextId))

get_categories(req) ==
    LET all_categories == FormatCategories(categories)
    IN  Unguarded(
            IF req.fail THEN raise_error
            ELSE IF Len(categories) = 0 THEN abort(not_found)
            ELSE return(jsonify(200, [success |-> TRUE,
                                      categories |-> CategoryDict(all_categories)]),
                        questions, nextId))

\* the empty page returned instead of abort(404)
get_questions_no_abort(req) ==
    LET paginated_questions == paginate_questions(req, questions)
        all_questions == FormatQuestions(questions)
        all_categories == FormatCategories(categories)
    IN  Unguarded(
            IF req.fail THEN raise_error
            ELSE return(jsonify(200, [success |-> TRUE,
                                      questions |-> paginated_questions,
                                      categories |-> CategoryDict(all_categories),
                                      current_category |-> None,
                                      total_questions |-> Len(all_questions)]),
                        questions, nextId))

get_questions(req) ==
    LET paginated_questions == paginate_questions(req, questions)
        all_questions == FormatQuestions(questions)
        all_categories == FormatCategories(categories)
    IN  Unguarded(
            IF req.fail THEN raise_error
            ELSE IF Len(paginated_questions) = 0 THEN abort(not_found)
            ELSE return(jsonify(200, [success |-> TRUE,
                                      questions |-> paginated_questions,
                                      categories |-> CategoryDict(all_categories),
                                      current_category |-> None,
                                      total_questions |-> Len(all_questions)]),
                        questions, nextId))

\* question.delete() left out
delete_question_keeps_row(req) ==
    LET question == Question_get(questions, req.id)
    IN  TryExcept(
            IF req.fail THEN raise_error
            ELSE IF question = <<>> THEN abort(bad_request)
            ELSE return(jsonify(200, [success |-> TRUE,
                                      total_questions |-> Len(questions)]),
                        questions, nextId),
            unprocessable)

delete_question(req) ==
    LET question == Question_get(questions, req.id)
        deleted == Question_delete(questions, req.id)
    IN  TryExcept(
            IF req.fail THEN raise_error
            ELSE IF question = <<>> THEN abort(bad_request)
            ELSE return(jsonify(200, [success |-> TRUE,
                                      total_questions |-> Len(deleted)]),
                        deleted, nextId),
            unprocessable)

\* question.insert() left out
post_or_search_question_no_insert(req) ==
    LET body == req.body
        search_term == Get(body, "searchTerm", None)
        matches(q) == ilike(q.question, search_term)
        select_questions == SelectSeq(questions, matches)
    IN  TryExcept(
            IF req.fail THEN raise_error
            ELSE IF Truthy(search_term)
            THEN return(jsonify(200, [success |-> TRUE,
                                      questions |-> paginate_questions(req, select_questions),
                                      total_questions |-> Len(select_questions)]),
                        questions, nextId)
            ELSE return(jsonify(200, [questions |-> paginate_questions(req, questions),
                                      totalQuestions |-> Len(questions),
                                      currentCategory |-> <<"n", "o", "n", "e">>]),
                        questions, nextId),
            not_found)

post_or_search_question(req) ==
    LET body == req.body
        new_question == Get(body, "question", None)
        new_difficulty == Get(body, "difficulty", NoneInt)
        new_category == Get(body, "category", NoneInt)
        new_answer == Get(body, "answer", None)
        search_term == Get(body, "searchTerm", None)
        matches(q) == ilike(q.question, search_term)
        select_questions == SelectSeq(questions, matches)
        inserted == Question_insert(questions, nextId, new_question, new_answer,
                                    new_category, new_difficulty)
    IN  TryExcept(
            IF req.fail THEN raise_error
            ELSE IF Truthy(search_term)
            THEN return(jsonify(200, [success |-> TRUE,
                                      questions |-> paginate_questions(req, select_questions),
                                      total_questions |-> Len(select_questions)]),
                        questions, nextId)
            ELSE return(jsonify(200, [questions |-> paginate_questions(req, inserted),
                                      totalQuestions |-> Len(inserted),
                                      currentCategory |-> <<"n", "o", "n", "e">>]),
                        inserted, nextId + 1),
            not_found)

search_category(req) ==
    LET isCategory(c) == c.id = req.id
        category == SelectSeq(categories, isCategory)
        inCategory(q) == q.category = req.id
        formatted_questions == FormatQuestions(SelectSeq(questions, inCategory))
    IN  Unguarded(
            IF req.fail THEN raise_error
            ELSE IF category = <<>> THEN abort(not_found)
            ELSE return(jsonify(200, [success |-> TRUE,
                                      questions |-> formatted_questions,
                                      total_questions |-> Len(questions),
                                      current_category |-> category[1].type]),
                        questions, nextId))

\* the candidates random.choice draws from
QuizQuestions(req) ==
    LET category == req.body.quiz_category
        inCategory(q) == q.category = category.id
    IN  IF category.id = 0 THEN questions ELSE SelectSeq(questions, inCategory)

\* pick: the index random.choice draws
quizzes(req, pick) ==
    LET previous_questions == req.body.previous_questions
        candidates == QuizQuestions(req)
        len_questions == Len(candidates)
    IN  TryExcept(
            IF req.fail THEN raise_error
            ELSE IF len_questions = 0 THEN raise_error   \* random.choice([]): IndexError
            ELSE IF Len(previous_questions) = len_questions
            THEN return(jsonify(200, [success |-> TRUE]), questions, nextId)
            ELSE return(jsonify(200, [success |-> TRUE,
                                      question |-> Question_format(candidates[pick])]),
                        questions, nextId),
            not_found)

----------------------------------------------------------------------------
(* The requests a client sends *)

\* the query string: no page parameter, or ?page=p
PageArgs == {EmptyDict} \cup {[page |-> p] : p \in (0 - 1)..MaxPage}

SearchBodies == {[searchTerm |-> t] : t \in {EmptyString, Tit, AT}}

AddBodies ==
    {EmptyDict,
     [question |-> Title, answer |-> Answer, category |-> 1, difficulty |-> 1],
     [question |-> What, answer |-> Answer, category |-> 2, difficulty |-> 1]}

\* the ids a quiz client was served so far, each once, in ascending order
AscendingList(ids) ==
    LET n == Cardinality(ids)
    IN  [i \in 1..n |-> CHOOSE x \in ids : Cardinality({y \in ids : y < x}) = i - 1]

PreviousQuestions == {AscendingList(ids) : ids \in SUBSET (1..MaxPrevId)}

QuizBodies ==
    {[previous_questions |-> prev, quiz_category |-> [id |-> c]] :
        prev \in PreviousQuestions, c \in 0..MaxCategories}

\* the routes of the app and the methods each is registered for
Routes ==
    [categories |-> {"GET"},
     questions |-> {"GET", "POST"},
     question |-> {"DELETE"},
     category_questions |-> {"GET"},
     quizzes |-> {"POST"}]

Methods == {"GET", "POST", "DELETE", "PATCH"}

----------------------------------------------------------------------------
(* Actions *)

\* the request is handled: its response is ready, the tables are as the
\* handler left them
Handle(req, result) ==
    /\ writes' = IF result.questions # questions THEN writes + 1 ELSE writes
    /\ writes' <= MaxWrites
    /\ request' = req
    /\ response' = result.response
    /\ questions' = result.questions
    /\ nextId' = result.nextId
    /\ UNCHANGED categories

GetCategories ==
    /\ request = NoRequest
    /\ \E fail \in BOOLEAN :
           LET req == Req("GET", "categories", 0, EmptyDict, EmptyDict, fail)
           IN  Handle(req, get_categories(req))

GetQuestions ==
    /\ request = NoRequest
    /\ \E args \in PageArgs, fail \in BOOLEAN :
           LET req == Req("GET", "questions", 0, args, EmptyDict, fail)
           IN  Handle(req, get_questions(req))

DeleteQuestion ==
    /\ request = NoRequest
    /\ \E id \in 1..nextId, fail \in BOOLEAN :
           LET req == Req("DELETE", "question", id, EmptyDict, EmptyDict, fail)
           IN  Handle(req, delete_question(req))

PostOrSearchQuestion ==
    /\ request = NoRequest
    /\ \E args \in PageArgs, body \in SearchBodies \cup AddBodies, fail \in BOOLEAN :
           LET req == Req("POST", "questions", 0, args, body, fail)
           IN  Handle(req, post_or_search_question(req))

SearchCategory ==
    /\ request = NoRequest
    /\ \E id \in 0..(MaxCategories + 1), fail \in BOOLEAN :
           LET req == Req("GET", "category_questions", id, EmptyDict, EmptyDict, fail)
           IN  Handle(req, search_category(req))

Quizzes ==
    /\ request = NoRequest
    /\ \E body \in QuizBodies, fail \in BOOLEAN :
           LET req == Req("POST", "quizzes", 0, EmptyDict, body, fail)
           IN  \E pick \in 1..Max(1, Len(QuizQuestions(req))) :
                   Handle(req, quizzes(req, pick))

\* a method the route is not registered for: the 405 handler answers
MethodNotAllowed ==
    /\ request = NoRequest
    /\ \E route \in DOMAIN Routes :
           \E method \in Methods \ Routes[route] :
               LET req == Req(method, route, 0, EmptyDict, EmptyDict, FALSE)
               IN  Handle(req, Result(not_allowed, questions, nextId))

\* after_request adds the Access-Control-Allow headers and returns the
\* response: it leaves the server, which is ready for the next request
after_request ==
    /\ request # NoRequest
    /\ request' = NoRequest
    /\ response' = NoResponse
    /\ UNCHANGED <<questions, categories, nextId, writes>>

----------------------------------------------------------------------------
(* The application *)

\* sizes of the question table when the application starts
InitSizes == {0, 1, QUESTIONS_PER_PAGE - 1, QUESTIONS_PER_PAGE, QUESTIONS_PER_PAGE + 1}

Init ==
    /\ \E n \in InitSizes :
          /\ questions = SeedQuestions(n)
          /\ nextId = n + 1
    /\ \E c \in 0..MaxCategories : categories = SeedCategories(c)
    /\ request = NoRequest
    /\ response = NoResponse
    /\ writes = 0

Next ==
    \/ GetCategories
    \/ GetQuestions
    \/ DeleteQuestion
    \/ PostOrSearchQuestion
    \/ SearchCategory
    \/ Quizzes
    \/ MethodNotAllowed
    \/ after_request

Spec == Init /\ [][Next]_vars

\* paginate_questions on its own: every selection length up to MaxLen
PaginateCall ==
    /\ request = NoRequest
    /\ \E args \in PageArgs :
           LET req == Req("GET", "questions", 0, args, EmptyDict, FALSE)
           IN  Handle(req, Result(jsonify(200, [questions |-> paginate_questions(req, questions)]),
                                  questions, nextId))

InitPaginate ==
    /\ \E n \in 0..MaxLen :
          /\ questions = SeedQuestions(n)
          /\ nextId = n + 1
    /\ categories = SeedCategories(MaxCategories)
    /\ request = NoRequest
    /\ response = NoResponse
    /\ writes = 0

NextPaginate == PaginateCall \/ after_request

SpecPaginate == InitPaginate /\ [][NextPaginate]_vars

----------------------------------------------------------------------------
(* Vocabulary of the properties *)

IsRequest(method, route) == request.method = method /\ request.route = route

\* the page the request asks for
Page == Get(request.args, "page", 1)

\* ids the database handed out whose rows are gone
Deleted == (1..(nextId - 1)) \ Ids(questions)

Range(s) == {s[i] : i \in 1..Len(s)}

\* the response is a JSON body with success true on 200 and false otherwise
HasSuccessFlag ==
    /\ "success" \in DOMAIN response.body
    /\ response.body.success = (response.status = 200)

----------------------------------------------------------------------------
(* C1: for a list of length L and a page p >= 1 (1 when no page parameter  *)
(* is given) paginate_questions returns min(10, max(0, L - 10*(p-1)))      *)
(* records, the ones at positions (p-1)*10 .. p*10-1 of the input, in      *)
(* their order.                                                            *)

C1_PageSlice ==
    (request # NoRequest /\ Page >= 1) =>
        LET L == Len(questions)
            out == response.body.questions
        IN  /\ Len(out) = Min(10, Max(0, L - 10 * (Page - 1)))
            /\ \A k \in 1..Len(out) :
                   out[k] = Question_format(questions[(Page - 1) * 10 + k])

C1_Witness ==
    /\ request # NoRequest
    /\ "page" \in DOMAIN request.args
    /\ Page = 3
    /\ Len(questions) = 24
    /\ Len(response.body.questions) = 4
    /\ response.body.questions[4].id = 24

----------------------------------------------------------------------------
(* C2: a POST /quizzes response that carries a question never carries one  *)
(* whose id is in previous_questions.                                      *)

C2_NeverRepeats ==
    (IsRequest("POST", "quizzes") /\ "question" \in DOMAIN response.body) =>
        response.body.question.id \notin Range(request.body.previous_questions)

----------------------------------------------------------------------------
(* C3: when no question of the requested category (all categories for id   *)
(* 0) remains outside previous_questions, the category being empty         *)
(* included, POST /quizzes answers success without a question, not an      *)
(* error.                                                                  *)

C3_CompletionNotError ==
    (/\ IsRequest("POST", "quizzes")
     /\ ~request.fail
     /\ \A q \in Range(questions) :
            (request.body.quiz_category.id \in {0, q.category})
                => q.id \in Range(request.body.previous_questions))
    => /\ response.status = 200
       /\ HasSuccessFlag
       /\ "question" \notin DOMAIN response.body

----------------------------------------------------------------------------
(* C4: after a successful DELETE /questions/{id} the question is in no     *)
(* page of a later GET /questions (ids are never reused), the reported     *)
(* total_questions is one less than before, and a second DELETE of the id  *)
(* answers an error (success false) and leaves the table as it is.         *)

C4_Listing ==
    (IsRequest("GET", "questions") /\ response.status = 200) =>
        \A k \in 1..Len(response.body.questions) :
            response.body.questions[k].id \notin Deleted

C4_DeleteStep ==
    /\ (request = NoRequest /\ request'.route = "question" /\ response'.status = 200) =>
          /\ request'.id \in Ids(questions)
          /\ request'.id \notin Ids(questions')
          /\ Len(questions') = Len(questions) - 1
          /\ response'.body.total_questions = Len(questions) - 1
    /\ (request = NoRequest /\ request'.route = "question" /\ request'.id \in Deleted) =>
          /\ response'.status # 200
          /\ response'.body.success = FALSE
          /\ questions' = questions
    /\ Deleted \subseteq Deleted'

\* C4: a deleted question stays out of every listing, the count drops by one,
\* a repeated delete is an error that changes nothing
C4_DeletedStaysDeleted == [](C4_Listing) /\ [][C4_DeleteStep]_vars

C4_Witness ==
    /\ IsRequest("DELETE", "question")
    /\ request.id \in Deleted
    /\ response.status = 422
    /\ writes >= 1

----------------------------------------------------------------------------
(* C5: a POST /questions that adds a question (no search term in the body) *)
(* to a table of L questions leaves L+1 questions, the new one last in id  *)
(* order, and GET /questions returns it on page ceil((L+1)/10).            *)

\* GET /questions for page ceil(n/10) of the table of n questions
C5_ListingOfLastPage ==
    get_questions(Req("GET", "questions", 0,
                      [page |-> (Len(questions) + 9) \div 10], EmptyDict, FALSE))

\* the state right after a successful add
C5_Listed ==
    (/\ IsRequest("POST", "questions")
     /\ "searchTerm" \notin DOMAIN request.body
     /\ response.status = 200)
    => LET n == Len(questions)
           listing == C5_ListingOfLastPage.response
       IN  /\ n >= 1
           /\ questions[n].id = nextId - 1
           /\ \A i \in 1..(n - 1) : questions[i].id < questions[n].id
           /\ questions[n].question = Get(request.body, "question", None)
           /\ listing.status = 200
           /\ Question_format(questions[n]) \in Range(listing.body.questions)

C5_AddStep ==
    (/\ request = NoRequest
     /\ request'.method = "POST" /\ request'.route = "questions"
     /\ "searchTerm" \notin DOMAIN request'.body
     /\ response'.status = 200)
    => /\ Len(questions') = Len(questions) + 1
       /\ SubSeq(questions', 1, Len(questions)) = questions

\* C5: an add appends one row, last in id order, listed on page ceil((L+1)/10)
C5_AddThenListed == [](C5_Listed) /\ [][C5_AddStep]_vars

C5_Witness ==
    /\ IsRequest("POST", "questions")
    /\ "question" \in DOMAIN request.body
    /\ response.status = 200
    /\ Len(questions) = 11
    /\ questions[11].id = nextId - 1
    /\ Len(paginate_questions(Req("GET", "questions", 0, [page |-> 2], EmptyDict, FALSE),
                              questions)) = 1

----------------------------------------------------------------------------
(* C6: every response of every endpoint and of every error handler is a    *)
(* JSON body with a success boolean: true on success, false on an error.   *)

C6_SuccessFlag == (request # NoRequest) => HasSuccessFlag

----------------------------------------------------------------------------
(* C7: DELETE /questions/{id} for an id that is not in the table answers   *)
(* 400, and 422 only when deleting an existing question fails in the       *)
(* persistence layer; the table is unchanged in both error cases.          *)

C7_DeleteErrorStep ==
    (request = NoRequest /\ request'.route = "question") =>
        /\ (request'.id \notin Ids(questions) /\ ~request'.fail)
              => response'.status = 400
        /\ response'.status = 422
              => (request'.fail /\ request'.id \in Ids(questions))
        /\ response'.status # 200 => questions' = questions

\* C7: a missing id is a 400, a 422 is a persistence failure on an existing row
C7_MissingIdIsBadRequest == [][C7_DeleteErrorStep]_vars

----------------------------------------------------------------------------
(* C8: GET /categories answers 404 with zero categories, and with N > 0    *)
(* categories success and a mapping of exactly N entries, id -> type; no   *)
(* operation changes the categories.                                       *)

C8_Listing ==
    (IsRequest("GET", "categories") /\ ~request.fail) =>
        IF Len(categories) = 0
        THEN response = not_found
        ELSE /\ response.status = 200
             /\ response.body.success = TRUE
             /\ Cardinality(DOMAIN response.body.categories) = Len(categories)
             /\ \A i \in 1..Len(categories) :
                    /\ categories[i].id \in DOMAIN response.body.categories
                    /\ response.body.categories[categories[i].id] = categories[i].type

\* C8: the listing is 404 or one entry per category, and the categories never change
C8_Categories == [](C8_Listing) /\ [][categories' = categories]_vars

C8_Witness ==
    /\ IsRequest("GET", "categories")
    /\ Len(categories) = 2
    /\ response.status = 200
    /\ DOMAIN response.body.categories = {1, 2}

----------------------------------------------------------------------------
(* C9: GET /questions and both branches of POST /questions answer          *)
(* not-found whenever the requested page lies past the end of the          *)
(* collection, never success with an empty questions list.                 *)

\* the collection the handler of the request paginates: the table for GET
\* /questions, the matches for a search, the table with the new row for an add
C9_Collection ==
    LET search_term == Get(request.body, "searchTerm", None)
        matches(q) == ilike(q.question, search_term)
    IN  IF request.method = "POST" /\ Truthy(search_term)
        THEN SelectSeq(questions, matches)
        ELSE questions

C9_PastTheEnd == Page >= 1 /\ Len(C9_Collection) <= 10 * (Page - 1)

\* C9 as stated: every caller of paginate_questions answers not-found for a
\* page past the end
C9_EveryCallerNotFound ==
    (/\ request.route = "questions"
     /\ request.method \in {"GET", "POST"}
     /\ ~request.fail
     /\ C9_PastTheEnd)
    => response = not_found

\* C9 amended: only GET /questions answers not-found when the page slice is
\* empty, and never success with an empty questions list; the search and the
\* add branch of POST /questions answer 200 with the empty list for a page
\* past the end of their collection
C9_OnlyListingNotFound ==
    /\ (IsRequest("GET", "questions") /\ ~request.fail) =>
          /\ C9_PastTheEnd => response = not_found
          /\ (Page >= 1 /\ ~C9_PastTheEnd) => response.status = 200
          /\ response.status = 200 => response.body.questions # <<>>
          /\ response.status \in {200, 404}
    /\ (IsRequest("POST", "questions") /\ ~request.fail /\ C9_PastTheEnd) =>
          /\ response.status = 200
          /\ response.body.questions = <<>>

C9_Witness ==
    /\ IsRequest("GET", "questions")
    /\ ~request.fail
    /\ Page = 2
    /\ Len(questions) = 10
    /\ response.status = 404

----------------------------------------------------------------------------
(* C10: POST /questions inserts only when the body holds no searchTerm;    *)
(* a body that holds one, the empty string included, is a search: it       *)
(* returns the matching questions in id order and leaves the table         *)
(* unchanged.                                                              *)

C10_SearchStep ==
    (/\ request = NoRequest
     /\ request'.method = "POST" /\ request'.route = "questions"
     /\ "searchTerm" \in DOMAIN request'.body
     /\ ~request'.fail)
    => /\ questions' = questions
       /\ response'.status = 200
       /\ "total_questions" \in DOMAIN response'.body
       /\ \A k \in 1..Len(response'.body.questions) :
              /\ ilike(response'.body.questions[k].question, request'.body.searchTerm)
              /\ \A j \in 1..(k - 1) :
                     response'.body.questions[j].id < response'.body.questions[k].id

\* C10: a body that holds a searchTerm is a search and leaves the table unchanged
C10_SearchTermMeansSearch == [][C10_SearchStep]_vars

====
